---- MODULE Spec2Model ----
(***************************************************************************)
(* Model of the mount middleware of stick (lib/middleware/mount.js):       *)
(* registration of mount points (app.mount), the per-request dispatcher    *)
(* (mount(req)) and the reverse lookup (exports.lookup); and of its        *)
(* identifier-based variant (lib/stick/middleware/mount.js).               *)
(*                                                                         *)
(* Strings are sequences of one-character strings, so that endsWith,       *)
(* startsWith, slice and the count of slashes are computed as the code     *)
(* computes them.  Host names are sequences of labels.                     *)
(***************************************************************************)
EXTENDS Integers, Sequences, FiniteSets, TLC

VARIABLES
    mounts,     \* mounts[a]: the mounts array of application a's middleware
    mountInfo,  \* mountInfo[a]: a.mountInfo, <<>> while the property is unset
    nreg,       \* number of mount calls that registered a mount so far
    reverse,    \* reverse[a]: the module id -> spec table of a's middleware
                \* (identifier-based variant)
    last        \* the last call made and what it returned or threw

vars == <<mounts, mountInfo, nreg, reverse, last>>

----------------------------------------------------------------------------
(* Values *)

\* The JavaScript value undefined, written as the text its string coercion gives.
Undefined == <<"undefined">>

\* The JavaScript value null (spec.host of a mount without host).
Null == <<"null">>

\* JavaScript truthiness of a string-or-undefined-or-null value.
Truthy(v) == v # Undefined /\ v # Null /\ v # <<>>

\* v || d
OrElse(v, d) == IF Truthy(v) THEN v ELSE d

\* strings.endsWith(s, suffix)
EndsWith(s, suffix) ==
    /\ Len(suffix) <= Len(s)
    /\ SubSeq(s, Len(s) - Len(suffix) + 1, Len(s)) = suffix

\* strings.startsWith(s, prefix)
StartsWith(s, prefix) ==
    /\ Len(prefix) <= Len(s)
    /\ SubSeq(s, 1, Len(prefix)) = prefix

\* s.slice(n) for n >= 0: the empty string when n >= s.length
Slice(s, n) == IF n >= Len(s) THEN <<>> ELSE SubSeq(s, n + 1, Len(s))

\* s.slice(0, -1)
DropLast(s) == IF Len(s) = 0 THEN <<>> ELSE SubSeq(s, 1, Len(s) - 1)

\* (p || '').match(/\//g), null counted as 0
SlashCount(p) ==
    LET s == OrElse(p, <<>>)
    IN  Cardinality({i \in 1..Len(s) : s[i] = "/"})

----------------------------------------------------------------------------
(* Registration: app.mount(spec, target, noRedirect) *)

\* The spec argument: a string, a falsy non-string value, or an object with
\* optional path and host properties.
StringSpec(p) == [kind |-> "string", path |-> p, host |-> Undefined]
NullSpec == [kind |-> "null", path |-> Undefined, host |-> Undefined]
ObjectSpec(p, h) == [kind |-> "object", path |-> p, host |-> h]

\* if (typeof spec === "string") ... else if (!spec) throw new Error("Missing spec")
MissingSpec(spec) == spec.kind = "null"

\* spec.path after the canonical path set-up
NormPath(spec) ==
    IF Truthy(spec.path) /\ EndsWith(spec.path, <<"/">>)
    THEN DropLast(spec.path)
    ELSE spec.path

\* spec.canonicalPath after the canonical path set-up
CanonicalPath(spec) ==
    IF Truthy(spec.path)
    THEN IF EndsWith(spec.path, <<"/">>) THEN spec.path ELSE spec.path \o <<"/">>
    ELSE Undefined

\* spec.host = spec.host ? String(spec.host) : null
NormHost(spec) == IF Truthy(spec.host) THEN spec.host ELSE Null

\* resolveApp(target) for a target that is an application
ResolveApp(target) == target

\* The object pushed on resolved.mountInfo
MountLink(app, spec) ==
    [parent |-> app, path |-> NormPath(spec), host |-> NormHost(spec)]

\* The object pushed on mounts; reg is the number of the registration, kept to
\* tell registration order (the code keeps no such field).
MountPoint(spec, target, noRedirect, n) ==
    [path |-> NormPath(spec),
     canonicalPath |-> CanonicalPath(spec),
     host |-> NormHost(spec),
     redirect |-> ~noRedirect,
     app |-> ResolveApp(target),
     reg |-> n]

\* The comparator with its operands swapped: slash1 - slash2
LeastSpecificPathFirst(m1, m2) == SlashCount(m1.path) - SlashCount(m2.path)

\* mostSpecificPathFirst(m1, m2): slash2 - slash1
MostSpecificPathFirst(m1, m2) == SlashCount(m2.path) - SlashCount(m1.path)

\* The array left as pushed: the sort forgotten
NoSort(s) == s

\* Array.prototype.sort with a comparator: a stable sort.  Insert(s, m) puts m
\* after every element it does not compare before.
RECURSIVE Insert(_, _)
Insert(s, m) ==
    IF s = <<>> THEN <<m>>
    ELSE IF MostSpecificPathFirst(s[Len(s)], m) <= 0
         THEN Append(s, m)
         ELSE Append(Insert(DropLast(s), m), s[Len(s)])

RECURSIVE Sort(_)
Sort(s) == IF s = <<>> THEN <<>> ELSE Insert(Sort(DropLast(s)), s[Len(s)])

\* app.mount(spec, target, noRedirect)
Mount(app, spec, target, noRedirect) ==
    IF MissingSpec(spec)
    THEN /\ last' = [op |-> "mount", app |-> app, spec |-> spec, target |-> target,
                    noRedirect |-> noRedirect, error |-> "Missing spec"]
         /\ UNCHANGED <<mounts, mountInfo, nreg, reverse>>
    ELSE LET resolved == ResolveApp(target)
         IN  /\ mountInfo' = [mountInfo EXCEPT ![resolved] = Append(@, MountLink(app, spec))]
             /\ mounts' = [mounts EXCEPT ![app] =
                              Sort(Append(@, MountPoint(spec, target, noRedirect, nreg + 1)))]
             /\ nreg' = nreg + 1
             /\ last' = [op |-> "mount", app |-> app, spec |-> spec, target |-> target,
                        noRedirect |-> noRedirect, error |-> ""]
             /\ UNCHANGED reverse

----------------------------------------------------------------------------
(* Dispatch: the middleware function mount(req) *)

\* The host compared for equality instead of as a suffix
HostEquals(m, req) ==
    \/ ~Truthy(m.host)
    \/ OrElse(req.host, <<>>) = m.host

\* The host half of match(req):
\* !spec.host || (host && strings.endsWith(host, spec.host))
HostMatch(m, req) ==
    LET host == OrElse(req.host, <<>>)
    IN  \/ ~Truthy(m.host)
        \/ Truthy(host) /\ EndsWith(host, m.host)

\* The path half of match(req): !spec.path || path === spec.path
\*     || (path && strings.startsWith(path, spec.canonicalPath))
PathMatch(m, req) ==
    LET path == OrElse(req.pathInfo, <<"/">>)
    IN  \/ ~Truthy(m.path)
        \/ path = m.path
        \/ Truthy(path) /\ StartsWith(path, m.canonicalPath)

\* mounts[i].match(req)
Match(m, req) == HostMatch(m, req) /\ PathMatch(m, req)

\* The loop ending on the last mount instead of past it
RECURSIVE FirstMatchOrLast(_, _, _)
FirstMatchOrLast(reg, req, i) ==
    IF i > Len(reg) THEN Len(reg)
    ELSE IF Match(reg[i], req) THEN i
    ELSE FirstMatchOrLast(reg, req, i + 1)

\* for (let i = 0; i < length; i++) if (mount.match(req)) ...: the index of the
\* mount the loop stops at, 0 when it runs to the end
RECURSIVE FirstMatch(_, _, _)
FirstMatch(reg, req, i) ==
    IF i > Len(reg) THEN 0
    ELSE IF Match(reg[i], req) THEN i
    ELSE FirstMatch(reg, req, i + 1)

\* The redirect condition without the mount's redirect flag
RedirectAlways(m, req) == req.pathInfo = m.path /\ req.method = "GET"

\* mount.redirect && req.pathInfo === mount.path && req.method === "GET"
RedirectCond(m, req) ==
    m.redirect /\ req.pathInfo = m.path /\ req.method = "GET"

\* location = req.scriptName + mount.canonicalPath;
\* if (req.queryString) location += "?" + req.queryString
Location(m, req) ==
    LET location == req.scriptName \o m.canonicalPath
    IN  IF Truthy(req.queryString)
        THEN location \o <<"?">> \o req.queryString
        ELSE location

\* {status: 303, headers: {location: location}, body: ["See other: ", location]}
Redirect(m, req) ==
    [status |-> 303, location |-> Location(m, req),
     body |-> <<"See other: ">> \o Location(m, req), by |-> ""]

\* The rewrite slicing the canonical path, trailing slash included, off pathInfo
RewriteCanonical(m, req) ==
    IF Truthy(m.path)
    THEN [req EXCEPT !.scriptName = @ \o m.path,
                     !.pathInfo = Slice(@, Len(m.canonicalPath))]
    ELSE req

\* if (mount.path) { req.scriptName += mount.path;
\*                   req.pathInfo = req.pathInfo.slice(mount.path.length) }
Rewrite(m, req) ==
    IF Truthy(m.path)
    THEN [req EXCEPT !.scriptName = @ \o m.path,
                     !.pathInfo = Slice(@, Len(m.path))]
    ELSE req

\* next(req): the wrapped chain of application app, which answers for itself
NextHandler(app, req) ==
    [status |-> 200, location |-> <<>>, body |-> <<>>, by |-> app]

\* What never returns: a dispatch that comes back to an application with the
\* pathInfo it had there before recurses until the stack overflows.
StackOverflow ==
    [status |-> 0, location |-> <<>>, body |-> <<>>, by |-> "InternalError"]

\* One run of the body of mount(req) of application app, up to the call it ends
\* with: its kind, the mount it stopped at (idx, 0 for none), the number of
\* mounts whose match was called, the request before and after.
Step(reg, app, req) ==
    LET i == FirstMatch(reg, req, 1)
    IN  IF i = 0
        THEN [kind |-> "next", app |-> app, idx |-> 0, examined |-> Len(reg),
              pre |-> req, req |-> req, callee |-> app,
              ret |-> NextHandler(app, req)]
        ELSE IF RedirectCond(reg[i], req)
        THEN [kind |-> "redirect", app |-> app, idx |-> i, examined |-> i,
              pre |-> req, req |-> req, callee |-> "",
              ret |-> Redirect(reg[i], req)]
        ELSE [kind |-> "invoke", app |-> app, idx |-> i, examined |-> i,
              pre |-> req, req |-> Rewrite(reg[i], req), callee |-> reg[i].app,
              ret |-> StackOverflow]

\* mount(req) of application app with every call it makes: return mount.app(req)
\* runs the mounted application's own middleware on the same request object.
RECURSIVE Dispatch(_, _, _, _)
Dispatch(ms, app, req, visited) ==
    IF <<app, req.pathInfo>> \in visited
    THEN [ret |-> StackOverflow, req |-> req, steps |-> <<>>]
    ELSE LET s == Step(ms[app], app, req)
         IN  IF s.kind # "invoke"
             THEN [ret |-> s.ret, req |-> s.req, steps |-> <<s>>]
             ELSE LET inner == Dispatch(ms, s.callee, s.req,
                                        visited \cup {<<app, req.pathInfo>>})
                  IN  [ret |-> inner.ret, req |-> inner.req,
                       steps |-> <<[s EXCEPT !.ret = inner.ret]>> \o inner.steps]

\* A request handed to the middleware of application app
Serve(app, req) ==
    LET d == Dispatch(mounts, app, req, {})
    IN  /\ last' = [op |-> "dispatch", app |-> app, entry |-> req,
                    ret |-> d.ret, req |-> d.req, steps |-> d.steps]
        /\ UNCHANGED <<mounts, mountInfo, nreg, reverse>>

\* The index of the first '?' of a Location, 0 when it has none
RECURSIVE QueryAt(_, _)
QueryAt(location, i) ==
    IF i > Len(location) THEN 0
    ELSE IF location[i] = "?" THEN i
    ELSE QueryAt(location, i + 1)

\* The request a client sends for the Location of a 303 answer to req: a GET
\* to the same dispatcher with the same scriptName, pathInfo the path of the
\* Location after scriptName, queryString what follows its '?'
Followed(req, location) ==
    LET q == QueryAt(location, 1)
        path == IF q = 0 THEN location ELSE SubSeq(location, 1, q - 1)
    IN  [req EXCEPT !.method = "GET",
                    !.pathInfo = Slice(path, Len(req.scriptName)),
                    !.queryString = IF q = 0 THEN <<>> ELSE Slice(location, q)]

\* The mount a dispatch issued its 303 for: the application and the
\* registration number of the mount its last step stopped at
Issuer(ms, steps) ==
    LET s == steps[Len(steps)]
    IN  <<s.app, ms[s.app][s.idx].reg>>

\* The 303 answer of the last dispatch followed: the dispatcher of the same
\* application serves the request for its Location.  hops counts the 303
\* answers followed so far, from is the mount the followed 303 was issued for.
FollowRedirect ==
    /\ last.op \in {"dispatch", "follow"}
    /\ last.ret.status = 303
    /\ LET req == Followed(last.entry, last.ret.location)
           d == Dispatch(mounts, last.app, req, {})
       IN  last' = [op |-> "follow", app |-> last.app, entry |-> req,
                    ret |-> d.ret, req |-> d.req, steps |-> d.steps,
                    hops |-> IF last.op = "follow" THEN last.hops + 1 ELSE 1,
                    from |-> Issuer(mounts, last.steps)]
    /\ UNCHANGED <<mounts, mountInfo, nreg, reverse>>

----------------------------------------------------------------------------
(* Reverse lookup: exports.lookup(target) *)

\* The cycle guard dropped: every parent taken as not seen
NeverSeen(seen, app) == TRUE

\* seen.indexOf(app) === -1
Unseen(seen, app) == \A k \in 1..Len(seen) : seen[k] # app

\* Only the first mount info looked at: taken when its parent was not seen,
\* and the loop given up otherwise
FirstLinkOnly(infos, seen, i) ==
    IF infos # <<>> /\ Unseen(seen, infos[1].parent) THEN 1 ELSE 0

\* for (let i = 0; i < mounts.length; i++): the index of the first mount info
\* with a parent that was not seen, 0 when the loop runs to the end
RECURSIVE FirstUnseen(_, _, _)
FirstUnseen(infos, seen, i) ==
    IF i > Len(infos) THEN 0
    ELSE IF Unseen(seen, infos[i].parent) THEN i
    ELSE FirstUnseen(infos, seen, i + 1)

\* The link's path never added to the accumulated path
KeepPath(link, path) == path

\* The link's path put after the accumulated path instead of before it
AppendPath(link, path) == path \o OrElse(link.path, <<>>)

\* path = (mount.path || "") + path
Prepend(link, path) == OrElse(link.path, <<>>) \o path

\* outer: while (mounts) { ... }
RECURSIVE Walk(_, _, _, _)
Walk(mi, infos, seen, path) ==
    LET i == FirstUnseen(infos, seen, 1)
    IN  IF i = 0 THEN path
        ELSE Walk(mi, mi[infos[i].parent], Append(seen, infos[i].parent),
                  Prepend(infos[i], path))

\* exports.lookup(target)
Lookup(mi, target) ==
    LET resolved == ResolveApp(target)
    IN  IF mi[resolved] = <<>> THEN <<>>
        ELSE Walk(mi, mi[resolved], <<resolved>>, <<>>)

LookupOf(target) ==
    /\ last' = [op |-> "lookup", target |-> target, ret |-> Lookup(mountInfo, target)]
    /\ UNCHANGED <<mounts, mountInfo, nreg, reverse>>

\* exports.lookup(target) step by step.  LookupStart runs it up to the first
\* test of while (mounts); LookupStep runs one pass of the outer loop, which
\* either moves to a parent or leaves the loop and returns.  While it runs,
\* last holds its locals: mounts (infos), seen and path; used lists the
\* <<application, index>> of the mount infos taken, kept to tell which links
\* the walk followed (the code keeps no such list).
LookupStart(target) ==
    LET resolved == ResolveApp(target)
    IN  /\ last' = IF mountInfo[resolved] = <<>>
                   THEN [op |-> "lookup", target |-> target, ret |-> <<>>,
                         seen |-> <<>>, used |-> <<>>]
                   ELSE [op |-> "walk", target |-> target,
                         infos |-> mountInfo[resolved], at |-> resolved,
                         seen |-> <<resolved>>, path |-> <<>>, used |-> <<>>]
        /\ UNCHANGED <<mounts, mountInfo, nreg, reverse>>

LookupStep ==
    /\ last.op = "walk"
    /\ LET i == FirstUnseen(last.infos, last.seen, 1)
       IN  last' = IF i = 0
                   THEN [op |-> "lookup", target |-> last.target, ret |-> last.path,
                         seen |-> last.seen, used |-> last.used]
                   ELSE [last EXCEPT
                            !.infos = mountInfo[last.infos[i].parent],
                            !.at = last.infos[i].parent,
                            !.seen = Append(@, last.infos[i].parent),
                            !.path = Prepend(last.infos[i], @),
                            !.used = Append(@, <<last.at, i>>)]
    /\ UNCHANGED <<mounts, mountInfo, nreg, reverse>>

----------------------------------------------------------------------------
(* The identifier-based variant (stick/middleware/mount.js): app.mount takes a
   handler or a module id, and mount(req) installs req.env.lookupModule *)

\* What require(id).app gives for the module ids of the set-up: an application
\* for two of them, nothing callable for the third.
Modules == [modB |-> "B", modC |-> "C", nomod |-> "undefined"]

\* typeof target === "string"
IsModuleId(target) == target \in DOMAIN Modules

\* typeof target !== "function", after target = require(target).app
NotAFunction(target) == target = "undefined"

\* reverse[target] = spec
Put(table, id, spec) ==
    [i \in DOMAIN table \cup {id} |-> IF i = id THEN spec ELSE table[i]]

\* The spec object after the set-up, as reverse holds it
SpecObject(spec) ==
    [path |-> NormPath(spec), canonicalPath |-> CanonicalPath(spec),
     host |-> NormHost(spec)]

\* app.mount(spec, target) of the variant
MountId(app, spec, target) ==
    IF MissingSpec(spec)
    THEN /\ last' = [op |-> "mount", app |-> app, spec |-> spec, target |-> target,
                    noRedirect |-> FALSE, error |-> "Missing spec"]
         /\ UNCHANGED <<mounts, mountInfo, nreg, reverse>>
    ELSE LET resolved == IF IsModuleId(target) THEN Modules[target] ELSE target
         IN  /\ reverse' = IF IsModuleId(target)
                           THEN [reverse EXCEPT ![app] = Put(@, target, SpecObject(spec))]
                           ELSE reverse
             /\ IF IsModuleId(target) /\ NotAFunction(resolved)
                THEN /\ last' = [op |-> "mount", app |-> app, spec |-> spec,
                                target |-> target, noRedirect |-> FALSE,
                                error |-> "Error resolving target"]
                     /\ UNCHANGED <<mounts, mountInfo, nreg>>
                ELSE /\ mounts' = [mounts EXCEPT ![app] =
                                      Append(@, MountPoint(spec, resolved, FALSE, nreg + 1))]
                     /\ nreg' = nreg + 1
                     /\ last' = [op |-> "mount", app |-> app, spec |-> spec,
                                target |-> target, noRedirect |-> FALSE, error |-> ""]
                     /\ UNCHANGED mountInfo

\* encodeURI, for the characters of the paths of the set-up: a space is
\* escaped, '/' and letters are kept
Escape(c) == IF c = " " THEN <<"%", "2", "0">> ELSE <<c>>

RECURSIVE EncodeURI(_)
EncodeURI(s) == IF s = <<>> THEN <<>> ELSE Escape(Head(s)) \o EncodeURI(Tail(s))

\* "/_" + id + "_(unresolved_module)"
Unresolved(id) == <<"/_", id, "_(unresolved_module)">>

\* The resolvers installed on a request, outermost first: each run of
\* mount(req) closes over its own reverse table, base = req.scriptName on
\* entry, and parentLookup, the resolver installed before it.
Resolvers(steps) ==
    [k \in 1..Len(steps) |-> [app |-> steps[k].app, base |-> steps[k].pre.scriptName]]

\* The resolvers asked outermost first instead of innermost first
OutermostFirst(rev, env, k, id) ==
    LET known == {j \in 1..k : /\ id \in DOMAIN rev[env[j].app]
                                /\ Truthy(rev[env[j].app][id].canonicalPath)}
    IN  IF known = {} THEN Unresolved(id)
        ELSE LET j == CHOOSE j \in known : \A i \in known : j <= i
             IN  EncodeURI(env[j].base \o rev[env[j].app][id].canonicalPath)

\* req.env.lookupModule(id) as the k-th run of mount(req) installed it; k = 0
\* stands for req.env.lookupModule before the first run, which is no function
RECURSIVE LookupModule(_, _, _, _)
LookupModule(rev, env, k, id) ==
    IF k = 0 THEN Unresolved(id)
    ELSE LET table == rev[env[k].app]
         IN  IF id \in DOMAIN table /\ Truthy(table[id].canonicalPath)
             THEN EncodeURI(env[k].base \o table[id].canonicalPath)
             ELSE LookupModule(rev, env, k - 1, id)

\* A request handed to the middleware of application app; env lists the
\* resolvers installed on it
ServeId(app, req) ==
    LET d == Dispatch(mounts, app, req, {})
    IN  /\ last' = [op |-> "dispatch", app |-> app, entry |-> req,
                    ret |-> d.ret, req |-> d.req, steps |-> d.steps,
                    env |-> Resolvers(d.steps)]
        /\ UNCHANGED <<mounts, mountInfo, nreg, reverse>>

----------------------------------------------------------------------------
(* Bounds and inputs *)

Apps == {"A", "B", "C"}

\* The application whose middleware receives the requests and registers the
\* mounts when requests are served; it mounts itself or application B.
Root == "A"
Targets == {"A", "B"}

\* Mount calls before requests are served
MaxMounts == 2
\* Mount calls on one application when only registration is looked at
MaxRegs == 3
\* Mount calls among the three applications before a lookup
MaxLinks == 3
\* 303 answers followed one after the other
MaxHops == 2

Slash == <<"/">>
PathA == <<"/", "a">>
PathB == <<"/", "b">>
PathASlash == <<"/", "a", "/">>
PathASlashSlash == <<"/", "a", "/", "/">>
PathAA == <<"/", "a", "/", "a">>
SlashSlash == <<"/", "/">>

ExampleCom == <<"example.", "com">>

\* Specs without a host: path strings, the empty object and a falsy spec
PathSpecs ==
    {StringSpec(p) : p \in {<<>>, Slash, SlashSlash, PathA, PathASlash, PathAA}}
    \cup {NullSpec, ObjectSpec(Undefined, Undefined)}

\* Specs for virtual hosts, next to plain paths
HostSpecs ==
    {StringSpec(PathA), StringSpec(PathAA), ObjectSpec(Undefined, <<>>),
     ObjectSpec(Undefined, ExampleCom), ObjectSpec(PathA, ExampleCom)}

\* Every shape of spec
AllSpecs ==
    PathSpecs \cup HostSpecs \cup {StringSpec(PathASlashSlash), StringSpec(PathB)}

\* Specs of the links a lookup walks
LinkSpecs == {StringSpec(PathA), StringSpec(PathB), ObjectSpec(Undefined, ExampleCom)}

\* Specs of the links a step-by-step lookup walks: with a path, and host-only
WalkSpecs == {StringSpec(PathA), ObjectSpec(Undefined, ExampleCom)}

\* <<parent, mounted application>> for the step-by-step lookup: chains,
\* self-mounts, cycles of two and of three applications
WalkPairs ==
    {<<"A", "B">>, <<"B", "A">>, <<"B", "C">>, <<"A", "C">>, <<"B", "B">>,
     <<"C", "A">>}

\* <<parent, mounted application>>
LinkPairs == {<<"A", "B">>, <<"B", "A">>, <<"B", "C">>, <<"A", "C">>, <<"B", "B">>}

PathInfos == {<<>>, Slash, PathA, PathASlash, <<"/", "a", "a">>, PathAA}

Hosts == {<<>>, ExampleCom, <<"sub.">> \o ExampleCom, <<"example.", "org">>}

Requests ==
    [scriptName : {<<>>}, pathInfo : PathInfos, method : {"GET", "POST"},
     queryString : {<<>>, <<"x">>}, host : {<<>>}]

HostRequests ==
    [scriptName : {<<>>}, pathInfo : {<<>>, PathA, <<"/", "a", "a">>, PathAA},
     method : {"GET", "POST"}, queryString : {<<>>}, host : Hosts]

PathSpace == <<"/", " ">>
ScriptS == <<"/", "s">>

\* Specs of the identifier-based variant: two paths, one with a character
\* that encodeURI escapes, and host-only
IdSpecs == {StringSpec(PathA), StringSpec(PathSpace), ObjectSpec(Undefined, ExampleCom)}

\* Its targets: module ids and a handler
IdTargets == DOMAIN Modules \cup {"B"}

\* The applications that register mounts in it
IdApps == {"A", "B"}

IdRequests ==
    [scriptName : {<<>>, ScriptS},
     pathInfo : {<<>>, PathA \o Slash, PathSpace \o Slash, PathA \o PathA \o Slash,
                 PathA \o PathSpace \o Slash},
     method : {"GET"}, queryString : {<<>>}, host : {<<>>}]

\* <<parent, mounted application>> of the chains a request is sent down
RoundPairs == {<<"A", "B">>, <<"B", "C">>, <<"A", "C">>}

\* Specs of the mounts of those chains
RoundSpecs ==
    {StringSpec(PathA), StringSpec(PathB), StringSpec(<<>>), StringSpec(SlashSlash),
     ObjectSpec(PathA, ExampleCom)}

\* What follows lookup(h) + "/" in the path of such a request
Remainders == {<<>>, <<"a">>}

----------------------------------------------------------------------------
(* Specifications *)

Init ==
    /\ mounts = [a \in Apps |-> <<>>]
    /\ mountInfo = [a \in Apps |-> <<>>]
    /\ nreg = 0
    /\ reverse = [a \in Apps |-> <<>>]
    /\ last = [op |-> "none"]

\* Set-up: mount calls on the root application.  Registration completes before
\* requests are served.
MountCall ==
    \E spec \in PathSpecs, target \in Targets, noRedirect \in BOOLEAN :
        /\ last.op # "dispatch"
        /\ nreg < MaxMounts
        /\ Mount(Root, spec, target, noRedirect)

\* A request served by the root application.  mount(req) keeps nothing from
\* one request to the next, so each behaviour serves one.
ServeCall ==
    \E req \in Requests :
        /\ last.op # "dispatch"
        /\ Serve(Root, req)

Next == MountCall \/ ServeCall

\* Path mounts, redirects and nested dispatch
Spec == Init /\ [][Next]_vars

MountHostCall ==
    \E spec \in HostSpecs, target \in Targets :
        /\ last.op # "dispatch"
        /\ nreg < MaxMounts
        /\ Mount(Root, spec, target, FALSE)

ServeHostCall ==
    \E req \in HostRequests :
        /\ last.op # "dispatch"
        /\ Serve(Root, req)

NextHost == MountHostCall \/ ServeHostCall

\* Virtual hosts
SpecHost == Init /\ [][NextHost]_vars

MountRegCall ==
    \E spec \in AllSpecs, target \in Targets :
        /\ nreg < MaxRegs
        /\ Mount(Root, spec, target, FALSE)

NextReg == MountRegCall

\* Registration alone, with every shape of spec
SpecReg == Init /\ [][NextReg]_vars

MountLinkCall ==
    \E pair \in LinkPairs, spec \in LinkSpecs :
        /\ last.op # "lookup"
        /\ nreg < MaxLinks
        /\ Mount(pair[1], spec, pair[2], FALSE)

LookupCall ==
    \E target \in Apps :
        /\ last.op # "lookup"
        /\ LookupOf(target)

NextLookup == MountLinkCall \/ LookupCall

\* Mounts among three applications and the reverse lookup
SpecLookup == Init /\ [][NextLookup]_vars

MountWalkCall ==
    \E pair \in WalkPairs, spec \in WalkSpecs :
        /\ last.op \notin {"walk", "lookup"}
        /\ nreg < MaxLinks
        /\ Mount(pair[1], spec, pair[2], FALSE)

LookupStartCall ==
    \E target \in Apps :
        /\ last.op \notin {"walk", "lookup"}
        /\ LookupStart(target)

NextWalk == MountWalkCall \/ LookupStartCall \/ LookupStep

\* The reverse lookup step by step.  lookup is synchronous: once called it
\* runs on until it returns.
SpecWalk == Init /\ [][NextWalk]_vars /\ WF_vars(LookupStep)

\* Set-up of the identifier-based variant.  A mount call that throws ends the
\* set-up; requests may still be served afterwards.
MountIdCall ==
    \E app \in IdApps, spec \in IdSpecs, target \in IdTargets :
        /\ last.op # "dispatch"
        /\ last.op = "mount" => last.error = ""
        /\ nreg < MaxMounts
        /\ MountId(app, spec, target)

ServeIdCall ==
    \E req \in IdRequests :
        /\ last.op # "dispatch"
        /\ ServeId(Root, req)

NextId == MountIdCall \/ ServeIdCall

\* The identifier-based variant: mounts by module id and the per-request
\* resolver
SpecId == Init /\ [][NextId]_vars

MountRoundCall ==
    \E pair \in RoundPairs, spec \in RoundSpecs :
        /\ last.op # "dispatch"
        /\ nreg < MaxMounts
        /\ Mount(pair[1], spec, pair[2], FALSE)

\* A request to the root application for the path lookup gives for h, with a
\* remainder after it
ServeLookedUpCall ==
    \E h \in Apps, r \in Remainders, scriptName \in {<<>>, ScriptS},
       method \in {"GET", "POST"} :
        /\ last.op # "dispatch"
        /\ Serve(Root, [scriptName |-> scriptName,
                        pathInfo |-> Lookup(mountInfo, h) \o Slash \o r,
                        method |-> method, queryString |-> <<>>, host |-> <<>>])

NextRound == MountRoundCall \/ ServeLookedUpCall

\* Chains of mounts, and requests for the paths lookup gives
SpecRound == Init /\ [][NextRound]_vars

MountFollowCall ==
    \E spec \in PathSpecs, target \in Targets :
        /\ last.op \notin {"dispatch", "follow"}
        /\ nreg < MaxMounts
        /\ Mount(Root, spec, target, FALSE)

ServeGetCall ==
    \E req \in Requests :
        /\ last.op \notin {"dispatch", "follow"}
        /\ req.method = "GET"
        /\ Serve(Root, req)

FollowCall ==
    /\ last.op = "follow" => last.hops < MaxHops
    /\ FollowRedirect

NextFollow == MountFollowCall \/ ServeGetCall \/ FollowCall

\* GET requests and the requests that follow their 303 answers
SpecFollow == Init /\ [][NextFollow]_vars

----------------------------------------------------------------------------
(* Claims *)

\* The number of '/' characters of a path, 0 for an absent or empty one
Slashes(p) ==
    IF p = Undefined THEN 0 ELSE Cardinality({i \in 1..Len(p) : p[i] = "/"})

\* The steps of the last dispatch
Steps == IF last.op = "dispatch" THEN last.steps ELSE <<>>

\* C1: after any sequence of successful mount calls, the mounts array of every
\* application is ordered by non-increasing count of '/' in path, and mounts
\* with the same count stand in the order in which they were registered.
C1_SortedStable ==
    \A a \in Apps : \A i, j \in 1..Len(mounts[a]) :
        i < j =>
            \/ Slashes(mounts[a][i].path) > Slashes(mounts[a][j].path)
            \/ /\ Slashes(mounts[a][i].path) = Slashes(mounts[a][j].path)
               /\ mounts[a][i].reg < mounts[a][j].reg

\* Three mounts, the one registered last sorted first, ahead of two of equal
\* count that kept their order.
C1_Witness ==
    /\ Len(mounts[Root]) = 3
    /\ mounts[Root][1].reg = 3
    /\ mounts[Root][2].reg = 1
    /\ mounts[Root][3].reg = 2
    /\ Slashes(mounts[Root][2].path) = Slashes(mounts[Root][3].path)
    /\ mounts[Root][2].path # mounts[Root][3].path

\* A spec that supplies neither a path nor a host: a falsy non-string spec, an
\* empty path string, an object with neither
SuppliesNeither(spec) == ~Truthy(spec.path) /\ ~Truthy(spec.host)

\* C9: a mount call whose spec supplies neither a path nor a host fails with
\* the missing-spec error, adds nothing to the registry and changes no
\* reverse-link list.
C9_MissingSpecWhenNeither ==
    [][(last'.op = "mount" /\ SuppliesNeither(last'.spec))
           => (last'.error = "Missing spec" /\ UNCHANGED <<mounts, mountInfo>>)]_vars

\* The registry the step's application dispatches on
RegOf(s) == mounts[s.app]

\* The mounts of a registry that match a request
Matching(reg, req) == {i \in 1..Len(reg) : Match(reg[i], req)}

\* C2: dispatch acts on exactly the first mount in registry order whose host
\* and path tests both pass and examines no later one; when two mounts with
\* paths p and q both match and q starts with p + "/", the mount for q stands
\* before the mount for p and the mount chosen is one whose path starts with
\* p + "/", never p's, whatever the order of their registration.
C2_FirstMatchWins ==
    \A k \in 1..Len(Steps) :
        LET s == Steps[k]
            reg == RegOf(s)
            matching == Matching(reg, s.pre)
        IN  /\ matching = {} => (s.idx = 0 /\ s.kind = "next")
            /\ matching # {} =>
                   /\ s.idx \in matching
                   /\ \A i \in matching : s.idx <= i
                   /\ s.examined = s.idx
                   /\ s.kind \in {"redirect", "invoke"}
                   /\ s.kind = "invoke" => s.callee = reg[s.idx].app
            /\ \A i, j \in matching :
                   (/\ reg[i].path # Undefined
                    /\ reg[j].path # Undefined
                    /\ StartsWith(reg[j].path, reg[i].path \o <<"/">>))
                   => /\ j < i
                      /\ s.idx # i
                      /\ reg[s.idx].path # Undefined
                      /\ StartsWith(reg[s.idx].path, reg[i].path \o <<"/">>)

\* Two matching mounts, the more specific one registered later and chosen.
C2_Witness ==
    \E k \in 1..Len(Steps) :
        LET s == Steps[k]
            reg == RegOf(s)
        IN  \E i, j \in Matching(reg, s.pre) :
                /\ reg[i].path # Undefined
                /\ reg[j].path # Undefined
                /\ StartsWith(reg[j].path, reg[i].path \o <<"/">>)
                /\ reg[j].reg > reg[i].reg
                /\ s.idx = j

\* "?" + queryString exactly when queryString is non-empty
Query(req) == IF req.queryString = <<>> THEN <<>> ELSE <<"?">> \o req.queryString

\* C3: when the matched mount has redirect enabled, the method is GET and
\* pathInfo equals the mount's path, dispatch returns 303 with location equal
\* to scriptName followed by the mount's canonicalPath and by "?" + queryString
\* exactly when queryString is non-empty; the mounted handler is not invoked
\* and scriptName and pathInfo are left unchanged.
C3_RedirectToCanonical ==
    \A k \in 1..Len(Steps) :
        LET s == Steps[k]
            m == RegOf(s)[s.idx]
        IN  (/\ s.idx > 0
             /\ m.redirect
             /\ s.pre.method = "GET"
             /\ s.pre.pathInfo = m.path)
            => /\ s.kind = "redirect"
               /\ s.ret.status = 303
               /\ m.canonicalPath # Undefined
               /\ s.ret.location = s.pre.scriptName \o m.canonicalPath \o Query(s.pre)
               /\ s.callee = ""
               /\ s.req = s.pre
               /\ k = Len(Steps)
               /\ last.ret = s.ret

\* C4: when a mount with path p matches and no redirect is issued, the mounted
\* handler is invoked once with scriptName extended by p and pathInfo with
\* exactly its first Len(p) characters, which are p, removed; dispatch returns
\* the handler's response unchanged, and a nested dispatcher goes on from the
\* rewritten request, so that the prefixes accumulate.
C4_RewriteAndInvoke ==
    \A k \in 1..Len(Steps) :
        LET s == Steps[k]
            m == RegOf(s)[s.idx]
        IN  (s.kind = "invoke" /\ m.path # Undefined)
            => /\ s.callee = m.app
               /\ s.req.scriptName = s.pre.scriptName \o m.path
               /\ s.pre.pathInfo = m.path \o s.req.pathInfo
               /\ k < Len(Steps) =>
                      /\ Steps[k + 1].app = s.callee
                      /\ Steps[k + 1].pre = s.req
                      /\ s.ret = Steps[k + 1].ret

\* C5: a mount registered with noRedirect = true has redirect disabled and
\* never makes dispatch answer 303: whenever it is the first match its handler
\* is invoked, and for the bare prefix with pathInfo "" and scriptName
\* extended by the mount path.
C5_NoRedirectInvokes ==
    /\ (last.op = "mount" /\ last.error = "") =>
           \A i \in 1..Len(mounts[last.app]) :
               mounts[last.app][i].reg = nreg
                   => mounts[last.app][i].redirect = ~last.noRedirect
    /\ \A k \in 1..Len(Steps) :
           LET s == Steps[k]
               m == RegOf(s)[s.idx]
           IN  (s.idx > 0 /\ ~m.redirect)
               => /\ s.kind = "invoke"
                  /\ s.callee = m.app
                  /\ (m.path # Undefined /\ s.pre.pathInfo = m.path)
                         => /\ s.req.pathInfo = <<>>
                            /\ s.req.scriptName = s.pre.scriptName \o m.path

\* A GET for the bare prefix /a of a mount without redirect, handed on with
\* pathInfo "".
C5_Witness ==
    \E k \in 1..Len(Steps) :
        LET s == Steps[k]
            m == RegOf(s)[s.idx]
        IN  /\ s.idx > 0
            /\ ~m.redirect
            /\ m.path = PathA
            /\ s.pre.method = "GET"
            /\ s.pre.pathInfo = PathA
            /\ s.kind = "invoke"
            /\ s.req.pathInfo = <<>>

\* host ends with suffix
IsSuffix(host, suffix) ==
    \E n \in 0..Len(host) : SubSeq(host, n + 1, Len(host)) = suffix

\* The host test as claimed: no host constraint, or a non-empty Host header
\* that ends with the mount's host
HostClaim(m, host) == m.host = Null \/ (host # <<>> /\ IsSuffix(host, m.host))

\* C6: the host test of a mount passes if and only if the mount has no host
\* constraint or the Host header is non-empty and ends with the mount's host;
\* a mount chosen by dispatch passes it.
C6_HostTest ==
    /\ \A a \in Apps : \A i \in 1..Len(mounts[a]) : \A h \in Hosts :
           HostMatch(mounts[a][i], [host |-> h]) <=> HostClaim(mounts[a][i], h)
    /\ \A k \in 1..Len(Steps) :
           LET s == Steps[k]
               reg == RegOf(s)
           IN  /\ \A i \in 1..Len(reg) :
                      HostMatch(reg[i], s.pre) <=> HostClaim(reg[i], s.pre.host)
               /\ s.idx > 0 => HostClaim(reg[s.idx], s.pre.host)
               /\ \A i \in 1..Len(reg) :
                      (i < s.idx \/ s.idx = 0)
                          => ~(HostClaim(reg[i], s.pre.host) /\ PathMatch(reg[i], s.pre))

\* A mount for example.com chosen for Host sub.example.com, with a mount for
\* example.com passed over for lack of the path.
C6_Witness ==
    \E k \in 1..Len(Steps) :
        LET s == Steps[k]
            reg == RegOf(s)
        IN  /\ s.idx > 0
            /\ reg[s.idx].host = ExampleCom
            /\ s.pre.host = <<"sub.">> \o ExampleCom

\* The mount has no path constraint: no path, or an empty one
NoPath(m) == m.path = Undefined \/ m.path = <<>>

\* The path test as claimed
PathClaim(m, pathInfo) ==
    \/ NoPath(m)
    \/ pathInfo = m.path
    \/ (m.canonicalPath # Undefined /\ StartsWith(pathInfo, m.canonicalPath))

\* C7: the path test of a mount passes if and only if the mount has no path
\* constraint, or pathInfo equals the mount's path, or pathInfo starts with
\* the mount's canonicalPath; a request with an empty pathInfo is matched only
\* by mounts without a path constraint.
C7_PathTest ==
    \A k \in 1..Len(Steps) :
        LET s == Steps[k]
            reg == RegOf(s)
        IN  /\ \A i \in 1..Len(reg) :
                   PathMatch(reg[i], s.pre) <=> PathClaim(reg[i], s.pre.pathInfo)
            /\ (s.pre.pathInfo = <<>> /\ s.idx > 0) => NoPath(reg[s.idx])

\* C8: if no registered mount matches, dispatch calls next once with the
\* request as it was on entry, returns next's response, invokes no mounted
\* handler and raises no error.
C8_FallThrough ==
    \A k \in 1..Len(Steps) :
        LET s == Steps[k]
        IN  Matching(RegOf(s), s.pre) = {}
            => /\ s.kind = "next"
               /\ s.callee = s.app
               /\ s.req = s.pre
               /\ s.ret = NextHandler(s.app, s.pre)
               /\ s.ret.status = 200
               /\ k = Len(Steps)
               /\ last.ret = s.ret
               /\ last.req = s.pre

\* A registry of two mounts, neither matching: the request falls through.
C8_Witness ==
    /\ last.op = "dispatch"
    /\ Len(mounts[Root]) = 2
    /\ Len(Steps) = 1
    /\ Steps[1].kind = "next"
    /\ Steps[1].examined = 2
    /\ last.ret.by = Root

\* The first-registered links followed upward from application h, at most n
RECURSIVE FirstLinks(_, _)
FirstLinks(h, n) ==
    IF n = 0 \/ mountInfo[h] = <<>> THEN <<>>
    ELSE <<mountInfo[h][1]>> \o FirstLinks(mountInfo[h][1].parent, n - 1)

\* h and the applications its first-registered links lead to, in order
FirstApps(h) ==
    LET links == FirstLinks(h, Cardinality(Apps))
    IN  <<h>> \o [k \in 1..Len(links) |-> links[k].parent]

\* Following first-registered links from h never revisits an application
NeverRevisits(h) ==
    \A i, j \in 1..Len(FirstApps(h)) : i # j => FirstApps(h)[i] # FirstApps(h)[j]

\* A link's contribution: its path, "" for a host-only link
LinkPath(link) == IF link.path = Undefined THEN <<>> ELSE link.path

\* The paths of a sequence of links, from the last (outermost) down to the first
RECURSIVE OuterToInner(_)
OuterToInner(links) ==
    IF links = <<>> THEN <<>>
    ELSE OuterToInner(Tail(links)) \o LinkPath(Head(links))

\* C10: lookup(h) is "" when h has no recorded links; when following the
\* first-registered link of each application upward never revisits an
\* application it is the concatenation, from the outermost parent down to h, of
\* the paths of those links (a host-only link contributes ""), and mounting h
\* again afterwards does not change it.
C10_LookupFirstLinks ==
    /\ [](\A h \in Apps :
            /\ mountInfo[h] = <<>> => Lookup(mountInfo, h) = <<>>
            /\ (mountInfo[h] # <<>> /\ NeverRevisits(h)) =>
                   Lookup(mountInfo, h) = OuterToInner(FirstLinks(h, Cardinality(Apps)))
            /\ (last.op = "lookup" /\ last.target = h) =>
                   last.ret = Lookup(mountInfo, h))
    /\ [][\A h \in Apps :
            (/\ mountInfo[h] # <<>>
             /\ NeverRevisits(h)
             /\ Len(mountInfo'[h]) > Len(mountInfo[h]))
            => Lookup(mountInfo', h) = Lookup(mountInfo, h)]_vars

\* An application mounted under a mounted parent and then again elsewhere:
\* lookup returns the parent's path followed by the first link's path.
C10_Witness ==
    /\ last.op = "lookup"
    /\ Len(mountInfo[last.target]) = 2
    /\ mountInfo[last.target][1].parent # mountInfo[last.target][2].parent
    /\ NeverRevisits(last.target)
    /\ Len(FirstLinks(last.target, Cardinality(Apps))) = 2
    /\ last.ret = PathA \o PathB

\* A sequence without a repeated element
Distinct(seq) == \A i, j \in 1..Len(seq) : i # j => seq[i] # seq[j]

\* C11: lookup terminates on every reverse-link graph that mount calls can
\* build, self-mounts and cycles included: the walk moves to a parent at most
\* once per distinct application (seen never repeats one), and a lookup that
\* was called returns, with the string the walk accumulated.
C11_LookupTerminates ==
    /\ [](last.op = "walk" =>
            /\ Distinct(last.seen)
            /\ Len(last.used) = Len(last.seen) - 1
            /\ Len(last.seen) <= Cardinality(Apps))
    /\ [](last.op = "lookup" => last.ret = Lookup(mountInfo, last.target))
    /\ ((last.op = "walk") ~> (last.op = "lookup"))

\* A lookup that returned after walking around a cycle of two applications:
\* it moved once, found the target itself as the next parent and stopped.
C11_Witness ==
    /\ last.op = "lookup"
    /\ Len(last.seen) = 2
    /\ \E k \in 1..Len(mountInfo[last.seen[2]]) :
           mountInfo[last.seen[2]][k].parent = last.target
    /\ last.ret = PathA

\* The applications h is mounted in, by any of its links
Parents(mi, h) == {mi[h][k].parent : k \in 1..Len(mi[h])}

\* The applications reached from a set of applications by going up n links at
\* most, the set itself left out unless a link leads back into it
RECURSIVE Above(_, _, _)
Above(mi, S, n) ==
    IF n = 0 THEN {}
    ELSE LET up == UNION {Parents(mi, a) : a \in S}
         IN  up \cup Above(mi, up, n - 1)

\* h is part of a link cycle: going up from h leads back to h
InCycle(mi, h) == h \in Above(mi, {h}, Cardinality(Apps))

\* The links a returned lookup followed, first (innermost) to last
UsedLinks == [k \in 1..Len(last.used) |-> mountInfo[last.used[k][1]][last.used[k][2]]]

\* C12 as stated: lookup returns "" for a target that is unmounted or that is
\* part of a link cycle.
C12_EmptyForUnmountedOrCycle ==
    (last.op = "lookup" /\ (mountInfo[last.target] = <<>> \/ InCycle(mountInfo, last.target)))
        => last.ret = <<>>

\* C12 (amended): lookup returns a string in every case; "" for an unmounted
\* target; for a target that is part of a link cycle the paths of the links it
\* followed before every parent left was one already visited, outermost
\* first, which is "" exactly when none of those links has a path, as for a
\* target mounted in nothing but itself.
C12_CycleYieldsWalkedPath ==
    last.op = "lookup" =>
        /\ last.ret = OuterToInner(UsedLinks)
        /\ mountInfo[last.target] = <<>> => last.ret = <<>>
        /\ InCycle(mountInfo, last.target) =>
               (last.ret = <<>> <=> \A k \in 1..Len(UsedLinks) : ~Truthy(UsedLinks[k].path))
        /\ Parents(mountInfo, last.target) = {last.target} => last.ret = <<>>

\* A lookup of a target on a cycle of three applications that followed two
\* links with paths and returned both paths.
C12_Witness ==
    /\ last.op = "lookup"
    /\ InCycle(mountInfo, last.target)
    /\ Len(last.used) = 2
    /\ \E k \in 1..Len(mountInfo[last.seen[3]]) :
           mountInfo[last.seen[3]][k].parent = last.target
    /\ last.ret = PathA \o PathA

\* The applications a returned lookup had seen before it took its k-th link
SeenBefore(k) == {last.seen[n] : n \in 1..k}

\* C13 as stated: at every level lookup uses the first-registered link of the
\* current application and never a later-registered one.
C13_OnlyFirstRegisteredLink ==
    last.op = "lookup" => \A k \in 1..Len(last.used) : last.used[k][2] = 1

\* C13 (amended): at every level of the walk lookup uses the first-registered
\* link of the current application whose parent has not been visited: every
\* link registered before it leads to a visited application, and no link
\* registered after it is used at that level.  The walk stops, and returns
\* the path accumulated so far, at the application of which every link leads
\* to a visited application.
C13_FirstUnvisitedLink ==
    last.op = "lookup" =>
        /\ \A k \in 1..Len(last.used) :
               LET app == last.used[k][1]
                   i == last.used[k][2]
               IN  /\ app = last.seen[k]
                   /\ mountInfo[app][i].parent = last.seen[k + 1]
                   /\ mountInfo[app][i].parent \notin SeenBefore(k)
                   /\ \A j \in 1..(i - 1) : mountInfo[app][j].parent \in SeenBefore(k)
        /\ Len(last.seen) = IF mountInfo[last.target] = <<>> THEN 0 ELSE Len(last.used) + 1
        /\ last.seen # <<>> =>
               Parents(mountInfo, last.seen[Len(last.seen)]) \subseteq SeenBefore(Len(last.seen))
        /\ last.ret = OuterToInner(UsedLinks)

\* A lookup that passed over the target's first-registered link, a self-mount,
\* and followed its second link to another application.
C13_Witness ==
    /\ last.op = "lookup"
    /\ Len(last.used) = 1
    /\ last.used[1][2] = 2
    /\ mountInfo[last.target][1].parent = last.target
    /\ last.ret = PathA

\* C14: for every stored mount, canonicalPath is present exactly when path is
\* present, path does not end with '/', and canonicalPath is path followed by
\* one '/', whatever path string was supplied.
C14_CanonicalPathShape ==
    \A a \in Apps : \A i \in 1..Len(mounts[a]) :
        LET m == mounts[a][i]
        IN  /\ (m.canonicalPath # Undefined) <=> (m.path # Undefined)
            /\ m.path # Undefined =>
                   /\ ~EndsWith(m.path, Slash)
                   /\ m.canonicalPath = m.path \o Slash

\* The resolvers installed on the request of the last dispatch
Env == IF last.op = "dispatch" THEN last.env ELSE <<>>

\* The table of the k-th resolver holds id with a path
Knows(k, id) ==
    /\ id \in DOMAIN reverse[Env[k].app]
    /\ reverse[Env[k].app][id].canonicalPath # Undefined

\* The paths of the mounts the first n runs of the last dispatch handed the
\* request on through, in order
RECURSIVE PathsFollowed(_)
PathsFollowed(n) ==
    IF n = 0 THEN <<>>
    ELSE PathsFollowed(n - 1)
             \o OrElse(mounts[last.steps[n].app][last.steps[n].idx].path, <<>>)

\* What C15 says of every resolver installed on a request, given how the
\* resolver turns base + canonicalPath into its result
ResolverClaim(result(_)) ==
    /\ \A k \in 1..Len(Env) :
           Env[k].base = last.entry.scriptName \o PathsFollowed(k - 1)
    /\ \A k \in 1..Len(Env), id \in DOMAIN Modules :
           LookupModule(reverse, Env, k, id) =
               IF Knows(k, id)
               THEN result(Env[k].base \o reverse[Env[k].app][id].canonicalPath)
               ELSE IF k > 1 THEN LookupModule(reverse, Env, k - 1, id)
               ELSE <<"/_", id, "_(unresolved_module)">>
    /\ \A id \in DOMAIN Modules :
           LET known == {k \in 1..Len(Env) : Knows(k, id)}
           IN  known # {} =>
                   \E k \in known :
                       /\ \A j \in known : j <= k
                       /\ LookupModule(reverse, Env, Len(Env), id) =
                              result(Env[k].base \o reverse[Env[k].app][id].canonicalPath)

\* C15 as stated: the resolver installed on a request returns base +
\* canonicalPath for an identifier its own table holds with a path, base being
\* scriptName on entry to that dispatcher; what the enclosing resolver returns
\* for any other identifier, and the unresolved sentinel when there is none;
\* through nested dispatchers the innermost table that knows it wins.
C15_ResolverPlainPath == ResolverClaim(LAMBDA s : s)

\* C15 (amended): the same, the resolver returning encodeURI(base +
\* canonicalPath), which is base + canonicalPath only when neither holds a
\* character that encodeURI escapes.
C15_ResolverEncodedPath == ResolverClaim(EncodeURI)

\* A request that went through two dispatchers whose tables both hold modB
\* with a path, the inner one under a path with a space: the resolver gives
\* the inner one's path, escaped, after the inner base.
C15_Witness ==
    /\ last.op = "dispatch"
    /\ Len(Env) = 2
    /\ Knows(1, "modB")
    /\ Knows(2, "modB")
    /\ Env[2].base = ScriptS \o PathA
    /\ LookupModule(reverse, Env, 2, "modB") =
           ScriptS \o PathA \o <<"/", "%", "2", "0", "/">>
    /\ LookupModule(reverse, Env, 2, "modC") = <<"/_", "modC", "_(unresolved_module)">>

\* C16: whenever a mounted handler or the fall-through next handler is
\* invoked, scriptName + pathInfo of the request is the concatenation it had
\* when the outermost dispatch was entered.
C16_UrlPreserved ==
    \A k \in 1..Len(Steps) :
        Steps[k].kind \in {"invoke", "next"} =>
            Steps[k].req.scriptName \o Steps[k].req.pathInfo
                = last.entry.scriptName \o last.entry.pathInfo

\* h is reached from root through a chain of path-only mounts, of at most n
\* links: every application of the chain below the root is mounted exactly
\* once, with a path and no host, the root is mounted nowhere, and the registry
\* of every application of the chain above h holds only the mount of the chain.
RECURSIVE PathOnlyChain(_, _, _)
PathOnlyChain(root, h, n) ==
    IF h = root THEN mountInfo[root] = <<>>
    ELSE /\ n > 0
         /\ Len(mountInfo[h]) = 1
         /\ mountInfo[h][1].host = Null
         /\ mountInfo[h][1].path # Undefined
         /\ LET parent == mountInfo[h][1].parent
            IN  /\ Len(mounts[parent]) = 1
                /\ mounts[parent][1].app = h
                /\ PathOnlyChain(root, parent, n - 1)

\* C17: when h is reached from the root through a chain of path-only mounts,
\* each application mounted once and each registry holding only its chain
\* mount, a request to the root that is not redirected and whose pathInfo is
\* lookup(h) + "/" + r invokes h with scriptName = the root's scriptName +
\* lookup(h) and pathInfo = "/" + r.
C17_LookupRoundTrip ==
    \A h \in Apps \ {Root} :
        LET path == Lookup(mountInfo, h)
        IN  (/\ last.op = "dispatch"
             /\ last.app = Root
             /\ PathOnlyChain(Root, h, Cardinality(Apps))
             /\ StartsWith(last.entry.pathInfo, path \o Slash)
             /\ last.ret.status # 303)
            => \E k \in 1..Len(Steps) :
                   /\ Steps[k].kind = "invoke"
                   /\ Steps[k].callee = h
                   /\ Steps[k].req.scriptName = last.entry.scriptName \o path
                   /\ Steps[k].req.pathInfo =
                          Slash \o Slice(last.entry.pathInfo, Len(path) + 1)

\* C reached through two mounts, B under /a in the root and C under /b in B:
\* the request for /s + /a/b/a invokes C with scriptName /s/a/b and pathInfo /a.
C17_Witness ==
    /\ last.op = "dispatch"
    /\ PathOnlyChain(Root, "C", Cardinality(Apps))
    /\ Lookup(mountInfo, "C") = PathA \o PathB
    /\ last.entry.scriptName = ScriptS
    /\ last.entry.pathInfo = PathA \o PathB \o PathA
    /\ Len(Steps) = 3
    /\ Steps[2].callee = "C"
    /\ Steps[2].req.scriptName = ScriptS \o PathA \o PathB
    /\ Steps[2].req.pathInfo = PathA

\* C18: when dispatch answers a GET with a 303 issued for mount m, the GET to
\* the same dispatcher, with the same scriptName, for the path of that
\* Location is not answered by another 303 issued for m.
C18_NoRedirectLoop ==
    (last.op = "follow" /\ last.ret.status = 303)
        => Issuer(mounts, last.steps) # last.from

\* C19: a mount call that fails because its target cannot be resolved leaves
\* the registration state as it was: the mounts arrays, every reverse-link
\* list and, in the identifier-based variant, the identifier lookup table.
C19_FailedMountChangesNothing ==
    [][(last'.op = "mount" /\ last'.error = "Error resolving target")
           => UNCHANGED <<mounts, mountInfo, reverse>>]_vars

====
